---- MODULE Spec2Model ----
(***************************************************************************)
(* gcloud.storage shortcut functions (src/gcloud/storage/__init__.py):     *)
(* get_connection and get_bucket, run on a Python call stack.  The module  *)
(* functions are modelled statement by statement; the collaborators        *)
(* (Credentials, Connection, Connection.get_bucket) live outside this file *)
(* and are stubs that either return a fresh object or raise.  The callers  *)
(* are the two usage scripts of the docstrings.                            *)
(***************************************************************************)
EXTENDS Integers, Sequences, FiniteSets, TLC

VARIABLES
  stack,    \* Python call stack, bottom first; the bottom frame is the calling script
  ret,      \* value being returned / exception being raised out of the last callee
  calls,    \* invocations made so far during the running script
  history,  \* the finished script runs, oldest first
  nextId,   \* identity of the next object to be allocated
  stubs,    \* which collaborator fails during the running script
  module    \* the module's global namespace (SCOPE, __version__)

vars == <<stack, ret, calls, history, nextId, stubs, module>>

----------------------------------------------------------------------------
(* Bounds and input domains *)

MaxCalls == 2

ProjectNames == {"proj", "proj2"}
Emails == {"e@x", "f@y"}
KeyPaths == {"/k"}
BucketNames == {"b", "b2"}
StubModes == {"ok", "cred_fails", "conn_fails", "bucket_fails"}

----------------------------------------------------------------------------
(* Values *)

SCOPE == <<"https://www.googleapis.com/auth/devstorage.full_control",
           "https://www.googleapis.com/auth/devstorage.read_write">>

Unbound == [type |-> "Unbound"]
End == 0

NoRet == [kind |-> "none", val |-> Unbound]
Returned(v) == [kind |-> "return", val |-> v]
Raised(e) == [kind |-> "raise", val |-> e]
Entered == [kind |-> "enter", val |-> Unbound]

Exception(cls, id) == [type |-> "Exception", cls |-> cls, id |-> id]

(* Collaborator stubs: each returns a new object that remembers what it was
   built from. *)
CredentialsObj(id, email, key, scope) ==
  [type |-> "Credentials", id |-> id, client_email |-> email,
   private_key_path |-> key, scope |-> scope]

ConnectionObj(id, project, credentials) ==
  [type |-> "Connection", id |-> id, project_name |-> project,
   credentials |-> credentials]

BucketObj(id, name, connection) ==
  [type |-> "Bucket", id |-> id, name |-> name, connection |-> connection]

----------------------------------------------------------------------------
(* The program text: the statement a frame is about to execute *)

(* Mutant: the e-mail and the key path change places in the credentials call. *)
get_connection_swapped(f) ==
  CASE f.line = 65 ->
         [callee |-> "Credentials.get_for_service_account",
          args |-> <<f.private_key_path, f.client_email>>,
          scope |-> module.SCOPE,
          target |-> "credentials", next |-> 67]
    [] f.line = 67 ->
         [callee |-> "Connection",
          project_name |-> f.project_name, credentials |-> f.credentials,
          target |-> "return", next |-> End]

(* Mutant: Connection is given credentials built on the spot, not the acquired ones. *)
get_connection_own_credentials(f) ==
  CASE f.line = 65 ->
         [callee |-> "Credentials.get_for_service_account",
          args |-> <<f.client_email, f.private_key_path>>,
          scope |-> module.SCOPE,
          target |-> "credentials", next |-> 67]
    [] f.line = 67 ->
         [callee |-> "Connection",
          project_name |-> f.project_name,
          credentials |-> CredentialsObj(0, f.client_email, f.private_key_path,
                                         module.SCOPE),
          target |-> "return", next |-> End]

(* Mutant: Connection is given the e-mail as its project name. *)
get_connection_mismapped(f) ==
  CASE f.line = 65 ->
         [callee |-> "Credentials.get_for_service_account",
          args |-> <<f.client_email, f.private_key_path>>,
          scope |-> module.SCOPE,
          target |-> "credentials", next |-> 67]
    [] f.line = 67 ->
         [callee |-> "Connection",
          project_name |-> f.client_email, credentials |-> f.credentials,
          target |-> "return", next |-> End]

get_connection(f) ==
  CASE f.line = 65 ->
         [callee |-> "Credentials.get_for_service_account",
          args |-> <<f.client_email, f.private_key_path>>,
          scope |-> module.SCOPE,
          target |-> "credentials", next |-> 67]
    [] f.line = 67 ->
         [callee |-> "Connection",
          project_name |-> f.project_name, credentials |-> f.credentials,
          target |-> "return", next |-> End]

(* Mutant: the call of line 95 passes three arguments. *)
get_bucket_three_arguments(f) ==
  CASE f.line = 95 ->
         [callee |-> "get_connection",
          args |-> <<f.bucket_name, f.client_email, f.private_key_path>>,
          target |-> "connection", next |-> 96]
    [] f.line = 96 ->
         [callee |-> "Connection.get_bucket",
          self |-> f.connection, args |-> <<f.bucket_name>>,
          target |-> "return", next |-> End]

get_bucket(f) ==
  CASE f.line = 95 ->
         [callee |-> "get_connection",
          args |-> <<f.client_email, f.private_key_path>>,
          target |-> "connection", next |-> 96]
    [] f.line = 96 ->
         [callee |-> "Connection.get_bucket",
          self |-> f.connection, args |-> <<f.bucket_name>>,
          target |-> "return", next |-> End]

(* >>> connection = storage.get_connection(project_name, email, key_path)
   >>> bucket1 = connection.get_bucket('bucket1') *)
script_connection(f) ==
  CASE f.line = 44 ->
         [callee |-> "get_connection",
          args |-> <<f.project_name, f.email, f.key_path>>,
          target |-> "connection", next |-> 45]
    [] f.line = 45 ->
         [callee |-> "Connection.get_bucket",
          self |-> f.connection, args |-> <<f.bucket_id>>,
          target |-> "bucket", next |-> End]

(* >>> bucket = storage.get_bucket('bucket-id', email, key_path) *)
script_bucket(f) ==
  CASE f.line = 75 ->
         [callee |-> "get_bucket",
          args |-> <<f.bucket_id, f.email, f.key_path>>,
          target |-> "bucket", next |-> End]

Stmt(f) ==
  CASE f.fn = "get_connection" -> get_connection(f)
    [] f.fn = "get_bucket" -> get_bucket(f)
    [] f.fn = "script_connection" -> script_connection(f)
    [] f.fn = "script_bucket" -> script_bucket(f)

(* def get_connection(project_name, client_email, private_key_path) *)
(* def get_bucket(bucket_name, client_email, private_key_path)      *)
Params(fn) ==
  CASE fn = "get_connection" -> <<"project_name", "client_email", "private_key_path">>
    [] fn = "get_bucket" -> <<"bucket_name", "client_email", "private_key_path">>

Locals(fn) ==
  CASE fn = "get_connection" -> {"credentials"}
    [] fn = "get_bucket" -> {"connection"}

FirstLine(fn) ==
  CASE fn = "get_connection" -> 65
    [] fn = "get_bucket" -> 95

Index(seq, x) == CHOOSE i \in 1..Len(seq) : seq[i] = x

(* Positional argument binding of a Python call: every parameter of the two
   functions is required, so any other number of arguments is a TypeError. *)
BindOk(fn, args) == Len(args) = Len(Params(fn))

NewFrame(fn, args) ==
  LET params == Params(fn)
      names == {params[i] : i \in 1..Len(params)}
  IN  [n \in {"fn", "line"} \cup names \cup Locals(fn) |->
         IF n = "fn" THEN fn
         ELSE IF n = "line" THEN FirstLine(fn)
         ELSE IF n \in names THEN args[Index(params, n)]
         ELSE Unbound]

(* Neither function has a try/except: an exception raised in a frame leaves
   it as the same exception. *)
(* Mutant: a handler re-raises the exception as another class. *)
Propagate_wrapped(f, e) == [e EXCEPT !.cls = "StorageError"]

Propagate(f, e) == e

----------------------------------------------------------------------------
(* Stack helpers *)

Top == stack[Len(stack)]
Pop == SubSeq(stack, 1, Len(stack) - 1)
IsScript(f) == f.fn \in {"script_connection", "script_bucket"}

Ready == /\ ret.kind = "none"
         /\ stack # <<>>
         /\ Top.line # End

Log(s, r) == Append(calls, [by |-> Top.fn, line |-> Top.line, stmt |-> s, result |-> r])

(* A value comes back to the top frame: it is either bound to the target
   local and the frame moves on, or returned further ("return <call>"). *)
Deliver(v) ==
  LET f == Top
      s == Stmt(f)
  IN  IF s.target = "return"
      THEN /\ stack' = Pop
           /\ ret' = Returned(v)
      ELSE /\ stack' = [stack EXCEPT ![Len(stack)] =
                          [f EXCEPT ![s.target] = v, !.line = s.next]]
           /\ ret' = NoRet

Failed(log) == {i \in 1..Len(log) : log[i].result.kind = "raise"}

(* Mutant: the first failing call is made again instead of raising. *)
Settle_retry_once(r) ==
  IF r.kind = "raise"
  THEN /\ stack' = stack
       /\ ret' = IF Failed(calls) = {} THEN NoRet ELSE r
  ELSE Deliver(r.val)

Settle(r) ==
  IF r.kind = "raise"
  THEN /\ stack' = stack
       /\ ret' = r
  ELSE Deliver(r.val)

----------------------------------------------------------------------------
Init ==
  /\ stack = <<>>
  /\ ret = NoRet
  /\ calls = <<>>
  /\ history = <<>>
  /\ nextId = 1
  /\ stubs = "ok"
  /\ module = [SCOPE |-> SCOPE, version |-> "0.1"]

(* A caller runs the get_connection docstring's script. *)
StartConnectionScript ==
  /\ stack = <<>>
  /\ Len(history) < MaxCalls
  /\ \E p \in ProjectNames, e \in Emails, k \in KeyPaths, b \in BucketNames,
        m \in StubModes :
       /\ stack' = <<[fn |-> "script_connection", line |-> 44,
                      project_name |-> p, email |-> e, key_path |-> k,
                      bucket_id |-> b, connection |-> Unbound,
                      bucket |-> Unbound]>>
       /\ stubs' = m
  /\ UNCHANGED <<ret, calls, history, nextId, module>>

(* A caller runs the get_bucket docstring's script. *)
StartBucketScript ==
  /\ stack = <<>>
  /\ Len(history) < MaxCalls
  /\ \E e \in Emails, k \in KeyPaths, b \in BucketNames, m \in StubModes :
       /\ stack' = <<[fn |-> "script_bucket", line |-> 75,
                      email |-> e, key_path |-> k,
                      bucket_id |-> b, bucket |-> Unbound]>>
       /\ stubs' = m
  /\ UNCHANGED <<ret, calls, history, nextId, module>>

(* A call of one of the module's two functions: bind the arguments and enter
   the function, or raise TypeError in the calling frame. *)
InvokeFunction(fn) ==
  /\ Ready
  /\ LET s == Stmt(Top)
     IN  /\ s.callee = fn
         /\ IF BindOk(fn, s.args)
            THEN /\ stack' = Append(stack, NewFrame(fn, s.args))
                 /\ ret' = NoRet
                 /\ calls' = Log(s, Entered)
                 /\ nextId' = nextId
            ELSE /\ stack' = stack
                 /\ ret' = Raised(Exception("TypeError", nextId))
                 /\ calls' = Log(s, Raised(Exception("TypeError", nextId)))
                 /\ nextId' = nextId + 1
  /\ UNCHANGED <<history, stubs, module>>

Invoke_get_connection == InvokeFunction("get_connection")

Invoke_get_bucket == InvokeFunction("get_bucket")

(* Credentials.get_for_service_account(client_email, private_key_path, scope=SCOPE) *)
Credentials_get_for_service_account ==
  /\ Ready
  /\ LET s == Stmt(Top)
     IN  /\ s.callee = "Credentials.get_for_service_account"
         /\ LET r == IF stubs = "cred_fails"
                     THEN Raised(Exception("InvalidCredentials", nextId))
                     ELSE Returned(CredentialsObj(nextId, s.args[1], s.args[2], s.scope))
            IN  /\ calls' = Log(s, r)
                /\ Settle(r)
  /\ nextId' = nextId + 1
  /\ UNCHANGED <<history, stubs, module>>

(* Mutant: the connection is kept in a module global and handed out again. *)
Connection_cached ==
  /\ Ready
  /\ LET s == Stmt(Top)
     IN  /\ s.callee = "Connection"
         /\ IF "connection" \in DOMAIN module
            THEN /\ calls' = calls
                 /\ Deliver(module.connection)
                 /\ module' = module
                 /\ nextId' = nextId
            ELSE LET c == ConnectionObj(nextId, s.project_name, s.credentials)
                 IN  /\ calls' = Log(s, Returned(c))
                     /\ Deliver(c)
                     /\ module' = [n \in DOMAIN module \cup {"connection"} |->
                                     IF n = "connection" THEN c ELSE module[n]]
                     /\ nextId' = nextId + 1
  /\ UNCHANGED <<history, stubs>>

(* Connection(project_name=project_name, credentials=credentials) *)
Connection ==
  /\ Ready
  /\ LET s == Stmt(Top)
     IN  /\ s.callee = "Connection"
         /\ LET r == IF stubs = "conn_fails"
                     THEN Raised(Exception("ConnectionError", nextId))
                     ELSE Returned(ConnectionObj(nextId, s.project_name, s.credentials))
            IN  /\ calls' = Log(s, r)
                /\ Settle(r)
  /\ nextId' = nextId + 1
  /\ UNCHANGED <<history, stubs, module>>

(* connection.get_bucket(bucket_name) *)
Connection_get_bucket ==
  /\ Ready
  /\ LET s == Stmt(Top)
     IN  /\ s.callee = "Connection.get_bucket"
         /\ LET r == IF stubs = "bucket_fails"
                     THEN Raised(Exception("NotFound", nextId))
                     ELSE Returned(BucketObj(nextId, s.args[1], s.self))
            IN  /\ calls' = Log(s, r)
                /\ Settle(r)
  /\ nextId' = nextId + 1
  /\ UNCHANGED <<history, stubs, module>>

(* The callee has returned: its value reaches the calling frame. *)
Return ==
  /\ ret.kind = "return"
  /\ stack # <<>>
  /\ Deliver(ret.val)
  /\ UNCHANGED <<calls, history, nextId, stubs, module>>

(* An exception leaves a frame of get_connection or get_bucket. *)
Unwind ==
  /\ ret.kind = "raise"
  /\ stack # <<>>
  /\ ~IsScript(Top)
  /\ stack' = Pop
  /\ ret' = Raised(Propagate(Top, ret.val))
  /\ UNCHANGED <<calls, history, nextId, stubs, module>>

(* The script ran to its end, or died of an uncaught exception. *)
FinishScript ==
  /\ stack # <<>>
  /\ IsScript(Top)
  /\ \/ ret.kind = "raise"
     \/ ret.kind = "none" /\ Top.line = End
  /\ history' = Append(history,
       [script |-> Top.fn, frame |-> Top, stubs |-> stubs, calls |-> calls,
        outcome |-> IF ret.kind = "raise" THEN ret ELSE Returned(Top.bucket)])
  /\ stack' = <<>>
  /\ ret' = NoRet
  /\ calls' = <<>>
  /\ UNCHANGED <<nextId, stubs, module>>

Next ==
  \/ StartConnectionScript
  \/ StartBucketScript
  \/ Invoke_get_connection
  \/ Invoke_get_bucket
  \/ Credentials_get_for_service_account
  \/ Connection
  \/ Connection_get_bucket
  \/ Return
  \/ Unwind
  \/ FinishScript

Spec == Init /\ [][Next]_vars

----------------------------------------------------------------------------
(* Vocabulary of the properties *)

CredCall == "Credentials.get_for_service_account"
Collaborators == {CredCall, "Connection", "Connection.get_bucket"}

Done == 1..Len(history)

(* Holds of the log of every run seen so far, finished or in progress. *)
EveryLog(P(_)) == P(calls) /\ \A i \in Done : P(history[i].calls)

At(log, callee) == {i \in 1..Len(log) : log[i].stmt.callee = callee}

CollaboratorCalls(log) == {i \in 1..Len(log) : log[i].stmt.callee \in Collaborators}

IsObject(v) == v.type \in {"Credentials", "Connection", "Bucket", "Exception"}

(* A value with the object identities blanked, to compare runs. *)
RECURSIVE AnonVal(_)
AnonVal(v) ==
  CASE v.type = "Connection" ->
         [v EXCEPT !.id = 0, !.credentials = AnonVal(v.credentials)]
    [] v.type = "Bucket" ->
         [v EXCEPT !.id = 0, !.connection = AnonVal(v.connection)]
    [] v.type \in {"Credentials", "Exception"} -> [v EXCEPT !.id = 0]
    [] OTHER -> v

AnonStmt(s) ==
  IF s.callee = "Connection" THEN [s EXCEPT !.credentials = AnonVal(s.credentials)]
  ELSE IF s.callee = "Connection.get_bucket" THEN [s EXCEPT !.self = AnonVal(s.self)]
  ELSE s

AnonResult(r) == [r EXCEPT !.val = AnonVal(r.val)]

AnonLog(log) ==
  [i \in 1..Len(log) |->
     [by |-> log[i].by, line |-> log[i].line, stmt |-> AnonStmt(log[i].stmt),
      result |-> AnonResult(log[i].result)]]

(* Identities of the objects the calls of a log produced. *)
Produced(log) ==
  {log[i].result.val.id : i \in {j \in 1..Len(log) : IsObject(log[j].result.val)}}

(* Identities of the objects the calls of a log were handed. *)
Consumed(log) ==
  {log[i].stmt.credentials.id :
     i \in {j \in At(log, "Connection") : IsObject(log[j].stmt.credentials)}}
  \cup
  {log[i].stmt.self.id :
     i \in {j \in At(log, "Connection.get_bucket") : IsObject(log[j].stmt.self)}}

----------------------------------------------------------------------------
(* get_connection: the calls it makes *)

GetConnectionCallsOk(h) ==
  \A i \in At(h.calls, "get_connection") :
    h.calls[i].result.kind = "enter" =>
      LET log == h.calls
          a == log[i].stmt.args
      IN  /\ Cardinality({j \in At(log, CredCall) : log[j].by = "get_connection"}) = 1
          /\ i + 1 \in At(log, CredCall)
          /\ log[i + 1].stmt.args = <<a[2], a[3]>>
          /\ log[i + 1].stmt.scope =
               <<"https://www.googleapis.com/auth/devstorage.full_control",
                 "https://www.googleapis.com/auth/devstorage.read_write">>
          /\ IF log[i + 1].result.kind = "return"
             THEN /\ Cardinality({j \in At(log, "Connection") :
                                    log[j].by = "get_connection"}) = 1
                  /\ i + 2 \in At(log, "Connection")
                  /\ log[i + 2].stmt.project_name = a[1]
                  /\ log[i + 2].stmt.credentials = log[i + 1].result.val
             ELSE At(log, "Connection") = {}

(* C1: every finished call get_connection(project_name, client_email,
   private_key_path) has invoked Credentials.get_for_service_account exactly
   once, with (client_email, private_key_path, scope=SCOPE), SCOPE being the
   pair (devstorage.full_control, devstorage.read_write) in that order, and,
   the credentials having been returned, has then constructed Connection
   exactly once with that project_name and the returned credentials object. *)
C1_CredentialsThenConnection ==
  \A i \in Done : GetConnectionCallsOk(history[i])

C1_Witness ==
  \E i \in Done :
    /\ history[i].script = "script_connection"
    /\ history[i].frame.project_name = "proj2"
    /\ history[i].frame.email = "f@y"
    /\ \E j \in At(history[i].calls, "Connection") :
         history[i].calls[j].result.kind = "return"

----------------------------------------------------------------------------
(* get_connection: what it returns *)

ReturnsTheConnection(frame, log) ==
  frame.fn = "script_connection" =>
    /\ frame.connection # Unbound =>
         \E j \in At(log, "Connection") :
           /\ At(log, "Connection") = {j}
           /\ log[j].result = Returned(frame.connection)
           /\ log[j].stmt.project_name = frame.project_name
    /\ frame.line # 44 =>
         \E j \in At(log, "Connection") :
           log[j].result = Returned(frame.connection)

(* C5: what get_connection(p, e, k) hands back to its caller is the very
   object the Connection constructor produced (same identity, no wrapper, no
   copy), and that constructor call received project_name = p; this holds for
   every call of every sequence of calls. *)
C5_ReturnsConstructedConnection ==
  /\ stack # <<>> => ReturnsTheConnection(stack[1], calls)
  /\ \A i \in Done :
       /\ ReturnsTheConnection(history[i].frame, history[i].calls)
       /\ history[i].script = "script_connection" =>
            \A j \in At(history[i].calls, "Connection") :
              history[i].calls[j].result.kind = "return" =>
                history[i].frame.connection = history[i].calls[j].result.val

C5_Witness ==
  /\ Len(history) >= 1
  /\ stack # <<>>
  /\ stack[1].fn = "script_connection"
  /\ stack[1].line = 45
  /\ stack[1].project_name = "proj"
  /\ stack[1].connection.type = "Connection"

----------------------------------------------------------------------------
(* Failures *)

ErrorsPropagate(log, out) ==
  /\ \A j \in Failed(log) :
       /\ j = Len(log)
       /\ out = log[j].result
  /\ \A j \in At(log, CredCall) :
       log[j].result.kind = "raise" => At(log, "Connection") = {}

(* C6: an exception raised by a call propagates unmodified and stops the
   run: the failing call is the last call made, the outcome of the run is
   that same exception object, and when credential acquisition fails inside
   get_connection no Connection is constructed. *)
C6_FailurePropagatesUnmodified ==
  /\ ErrorsPropagate(calls, ret)
  /\ \A i \in Done : ErrorsPropagate(history[i].calls, history[i].outcome)

C6_Witness ==
  /\ \E i \in Done :
       /\ history[i].stubs = "cred_fails"
       /\ history[i].outcome.kind = "raise"
       /\ history[i].outcome.val.cls = "InvalidCredentials"
  /\ \E i \in Done :
       /\ history[i].script = "script_bucket"
       /\ history[i].outcome.kind = "raise"

----------------------------------------------------------------------------
(* get_bucket as written *)

BucketRunStopsAtLine95(h) ==
  h.script = "script_bucket" =>
    /\ CollaboratorCalls(h.calls) = {}
    /\ h.outcome.kind = "raise"
    /\ h.outcome.val.cls = "TypeError"
    /\ Len(h.calls) = 2
    /\ h.calls[1].stmt.callee = "get_bucket"
    /\ h.calls[1].result.kind = "enter"
    /\ h.calls[2].by = "get_bucket"
    /\ h.calls[2].line = 95
    /\ h.calls[2].stmt.callee = "get_connection"
    /\ h.calls[2].stmt.args = <<h.frame.email, h.frame.key_path>>
    /\ h.calls[2].result = h.outcome

(* C7: get_bucket calls get_connection with two positional arguments, so
   every call of get_bucket ends in the TypeError raised at that call (line
   95); get_connection is never entered and no collaborator (credential
   acquisition, Connection, Connection.get_bucket) is ever called by a run
   of get_bucket. *)
C7_GetBucketAlwaysTypeError ==
  /\ (stack # <<>> /\ stack[1].fn = "script_bucket") =>
       /\ CollaboratorCalls(calls) = {}
       /\ \A k \in 1..Len(stack) : stack[k].fn # "get_connection"
       /\ \A k \in 1..Len(stack) : stack[k].line # 96
  /\ \A i \in Done : BucketRunStopsAtLine95(history[i])

C7_Witness ==
  \E i \in Done :
    /\ history[i].script = "script_bucket"
    /\ history[i].stubs = "ok"
    /\ history[i].outcome.kind = "raise"
    /\ history[i].outcome.val.cls = "TypeError"

----------------------------------------------------------------------------
(* Order of the calls *)

InOrder(log) ==
  /\ \A j \in At(log, "Connection") :
       /\ j > 1
       /\ log[j - 1].stmt.callee = CredCall
       /\ log[j - 1].by = log[j].by
       /\ log[j - 1].result = Returned(log[j].stmt.credentials)
  /\ \A j \in At(log, "Connection.get_bucket") :
       /\ \E i \in At(log, "Connection") :
            i < j /\ log[i].result = Returned(log[j].stmt.self)
       /\ \E i \in At(log, "get_connection") :
            i < j /\ log[i].by = log[j].by /\ log[i].result.kind = "enter"

(* C8: within one run the calls come in a fixed order: Connection is
   constructed directly after, and with the credentials object returned by,
   the credential acquisition of the same get_connection call; a bucket is
   resolved only on a connection that get_connection returned earlier to
   the same caller. *)
C8_CallsInOrder == EveryLog(InOrder)

C8_Witness ==
  /\ At(calls, "Connection.get_bucket") # {}
  /\ At(calls, "Connection") # {}
  /\ At(calls, CredCall) # {}
  /\ Len(history) >= 1

----------------------------------------------------------------------------
(* No retry *)

AtMostOnce(log) ==
  /\ \A c \in Collaborators \cup {"get_connection", "get_bucket"} :
       Cardinality(At(log, c)) <= 1
  /\ \A j \in Failed(log) : \A k \in 1..Len(log) : k <= j

(* C9: no retry: during one run credential acquisition, Connection
   construction, the call of get_connection and bucket resolution each happen
   at most once, whether or not something fails, and nothing is called after
   a call has failed. *)
C9_NoRetry == EveryLog(AtMostOnce)

C9_Witness ==
  \E i \in Done :
    /\ history[i].stubs = "conn_fails"
    /\ Failed(history[i].calls) # {}
    /\ Cardinality(At(history[i].calls, CredCall)) = 1
    /\ Cardinality(At(history[i].calls, "Connection")) = 1

----------------------------------------------------------------------------
(* No state between calls *)

Inputs(h) ==
  IF h.script = "script_connection"
  THEN <<h.script, h.frame.project_name, h.frame.email, h.frame.key_path, h.frame.bucket_id>>
  ELSE <<h.script, h.frame.email, h.frame.key_path, h.frame.bucket_id>>

SameRun(i, j) ==
  /\ Inputs(history[i]) = Inputs(history[j])
  /\ history[i].stubs = history[j].stubs

ModuleAsImported ==
  module = [SCOPE |-> <<"https://www.googleapis.com/auth/devstorage.full_control",
                        "https://www.googleapis.com/auth/devstorage.read_write">>,
            version |-> "0.1"]

RunsRepeat ==
  \A i \in Done : \A j \in Done :
    (i < j /\ SameRun(i, j)) =>
      /\ AnonLog(history[i].calls) = AnonLog(history[j].calls)
      /\ AnonResult(history[i].outcome) = AnonResult(history[j].outcome)

NothingReused ==
  /\ \A i \in Done : \A j \in Done :
       i < j =>
         /\ Produced(history[i].calls) \cap Produced(history[j].calls) = {}
         /\ Consumed(history[j].calls) \cap Produced(history[i].calls) = {}
  /\ \A i \in Done :
       /\ Consumed(history[i].calls) \subseteq Produced(history[i].calls)
       /\ Consumed(calls) \cap Produced(history[i].calls) = {}
       /\ \A j \in At(history[i].calls, "get_connection") :
            history[i].calls[j].result.kind = "enter" =>
              At(history[i].calls, CredCall) # {}

(* C10: the module keeps no state between calls: its globals stay as
   imported (SCOPE the same pair), a later run with the same arguments and
   the same collaborator behaviour makes the same calls with the same
   arguments and ends the same way as an earlier one, and no run uses or
   returns an object that an earlier run produced: each get_connection call
   acquires its own credentials and constructs its own Connection. *)
C10_NoStateBetweenCalls ==
  /\ ModuleAsImported
  /\ RunsRepeat
  /\ NothingReused

C10_Witness ==
  /\ Len(history) = 2
  /\ SameRun(1, 2)
  /\ history[1].script = "script_connection"
  /\ history[1].stubs = "ok"
  /\ history[2].outcome.kind = "return"

----------------------------------------------------------------------------
(* get_bucket as documented *)

(* What a call asked of a collaborator, without the caller's bookkeeping. *)
Request(s) ==
  CASE s.callee = CredCall -> <<s.callee, s.args, s.scope>>
    [] s.callee = "Connection" -> <<s.callee, AnonVal(s.credentials)>>
    [] s.callee = "Connection.get_bucket" -> <<s.callee, s.args>>

RECURSIVE Requests(_)
Requests(log) ==
  IF log = <<>> THEN <<>>
  ELSE IF Head(log).stmt.callee \in Collaborators
       THEN <<<<Request(Head(log).stmt), Head(log).result.kind>>>> \o Requests(Tail(log))
       ELSE Requests(Tail(log))

(* What a run ended in: the bucket's name, or the exception's class. *)
Ending(h) ==
  IF h.outcome.kind = "raise" THEN <<"raise", h.outcome.val.cls>>
  ELSE IF h.outcome.val.type = "Bucket" THEN <<"return", h.outcome.val.name>>
  ELSE <<"return", h.outcome.val.type>>

(* C2: when credential acquisition, Connection construction and
   Connection.get_bucket all succeed, get_bucket(bucket_name, client_email,
   private_key_path) returns a bucket handle for bucket_name, obtained from a
   connection built with the provided credentials, and does not end in an
   error. *)
C2_GetBucketReturnsBucket ==
  \A i \in Done :
    (history[i].script = "script_bucket" /\ history[i].stubs = "ok") =>
      /\ history[i].outcome.kind = "return"
      /\ history[i].outcome.val.type = "Bucket"
      /\ history[i].outcome.val.name = history[i].frame.bucket_id
      /\ history[i].outcome.val.connection.credentials.client_email
           = history[i].frame.email
      /\ history[i].outcome.val.connection.credentials.private_key_path
           = history[i].frame.key_path

(* C3: a call get_bucket(n, e, k) calls get_bucket on the connection it
   constructed exactly once, with the single argument n, and on no other
   connection. *)
C3_ResolvesBucketOnce ==
  \A i \in Done :
    (history[i].script = "script_bucket"
       /\ history[i].stubs \in {"ok", "bucket_fails"}) =>
      \E j \in At(history[i].calls, "Connection.get_bucket") :
        /\ At(history[i].calls, "Connection.get_bucket") = {j}
        /\ history[i].calls[j].stmt.args = <<history[i].frame.bucket_id>>
        /\ \E c \in At(history[i].calls, "Connection") :
             history[i].calls[c].result = Returned(history[i].calls[j].stmt.self)

(* C4: get_bucket(bucket_name, client_email, private_key_path) ends the same
   way (same bucket, or same error) and makes the same collaborator calls as
   get_connection with those credential parameters followed by
   get_bucket(bucket_name) on the returned connection. *)
C4_SameAsChaining ==
  \A i \in Done : \A j \in Done :
    (/\ history[i].script = "script_bucket"
     /\ history[j].script = "script_connection"
     /\ history[i].frame.email = history[j].frame.email
     /\ history[i].frame.key_path = history[j].frame.key_path
     /\ history[i].frame.bucket_id = history[j].frame.bucket_id
     /\ history[i].stubs = history[j].stubs) =>
      /\ Ending(history[i]) = Ending(history[j])
      /\ Requests(history[i].calls) = Requests(history[j].calls)

====
